---- MODULE Spec2Model ----
(***************************************************************************)
(* Verification model of pykale's example configuration modules            *)
(* (examples/*/config.py), of the loss functions of kale/predict/losses.py *)
(* and of the Office data access exercised by tests/loaddata.              *)
(*                                                                         *)
(* Python objects live in a heap of identities so that aliasing, cloning   *)
(* and in-place updates are observable.  Real numbers are exact rationals  *)
(* [n |-> numerator, d |-> denominator]; floating-point rounding is not    *)
(* modelled.                                                               *)
(***************************************************************************)
EXTENDS Integers, Sequences, FiniteSets, TLC

VARIABLES
    heap,       \* configs: Python objects (CfgNode / list), by identity
    cfgs,       \* configs: the configs returned so far, [module, root]
    op,         \* configs: the last operation (history)
    nassign     \* configs: number of assignments made so far

VARIABLES
    pc,         \* losses: position inside the function being executed
    args,       \* losses: the arguments of the call, as the caller holds them
    locals,     \* losses: the local variables of the function being executed
    ret,        \* losses: what the call returned or raised
    hist,       \* losses: the calls made so far (history)
    rng,        \* torch's default random generator, one per run of the program
    run,        \* the run of the program that is executing
    access,     \* data: the Office data access that was constructed
    dataset,    \* data: the MultiDomainAdapDataset wrapped around it
    loader,     \* data: the loader returned by get_domain_loaders
    batch       \* data: the domain labels of the first batch, as drawn so far

cfgVars == <<heap, cfgs, op, nassign>>

lossVars == <<pc, args, locals, ret, hist>>

rngVars == <<rng, run>>

dataVars == <<access, dataset, loader, batch>>

vars == <<cfgVars, lossVars, rngVars, dataVars>>

None == [none |-> TRUE]

-----------------------------------------------------------------------------
(* Generic helpers *)

Range(s) == {s[i] : i \in DOMAIN s}

Abs(a) == IF a >= 0 THEN a ELSE -a

-----------------------------------------------------------------------------
(* Bounds *)

MaxCfgs == 2        \* get_cfg_defaults() calls per behaviour
MaxAssign == 2      \* assignments per behaviour
MaxSamples == 3     \* hsic: rows of a kernel matrix
MaxEntry == 1       \* hsic: magnitude of a kernel matrix entry
MaxBatch == 3       \* compute_mmd_loss: batch_size
MaxCoef == 2        \* compute_mmd_loss: coefficients of the generic kernel values
MaxK == 2           \* compute_mmd_loss: kernel values of identical domains
MaxRows == 2        \* gaussian_kernel: rows of source and of target
NFeatures == 1      \* gaussian_kernel: columns of source and target
MaxX == 1           \* gaussian_kernel: largest feature value
MaxMul == 2         \* gaussian_kernel: largest kernel_mul
MaxKernelNum == 5   \* gaussian_kernel: largest kernel_num
MaxSigma == 2       \* gaussian_kernel: largest fix_sigma
MaxCalls == 2       \* gaussian_kernel: calls made with the same argument objects
MaxGpRows == 2      \* gradient_penalty: rows N of h_s and h_t
GpFeatures == 2     \* gradient_penalty: columns d of h_s and h_t
MaxH == 1           \* gradient_penalty: largest feature value
AlphaDen == 2       \* torch.rand: values are k / AlphaDen, k in 0..AlphaDen-1
MaxRunCalls == 2    \* two runs: calls per run

-----------------------------------------------------------------------------
(* Configuration modules: yacs CfgNode trees                               *)

\* a value stored under a key or in a list: a scalar or a reference
S(v) == [t |-> "val", v |-> v, id |-> 0]
R(id) == [t |-> "ref", v |-> "", id |-> id]

\* heap objects
CN(f) == [kind |-> "node", f |-> f, items |-> <<>>]
PyList(items) == [kind |-> "list", f |-> <<>>, items |-> items]

Modules == {"avmnist_multimodal", "multisource_adapt", "cmri_mpca"}

\* heap after the module bodies of the three config.py files have run
avmnist_C ==
    << CN([DATASET |-> R(2), SOLVER |-> R(3), MODEL |-> R(4), OUTPUT_DIR |-> S("./outputs")]),
       CN([ROOT |-> S("avmnist"), NAME |-> S("data.zip"),
           GDRIVE_ID |-> S("1N5k-LvLwLbPBgn3GdVg6fXMBIR6pYrKb"),
           BASE_DIR |-> S("avmnist"), FILE_FORAMT |-> S("zip"), BATCH_SIZE |-> S("40"),
           SHUFFLE |-> S("True"), FLATTEN_AUDIO |-> S("True"), FLATTEN_IMAGE |-> S("True"),
           UNSQUEEZE_CHANNEL |-> S("False"), NORMALIZE_IMAGE |-> S("False"),
           NORMALIZE_AUDIO |-> S("False")]),
       CN([SEED |-> S("2020"), BASE_LR |-> S("0.01"), WEIGHT_DECAY |-> S("0.0001"),
           MAX_EPOCHS |-> S("1"), IS_PACKED |-> S("False"), EARLY_STOP |-> S("True"),
           CLIP_VAL |-> S("8")]),
       CN([LENET_IN_CHANNELS |-> S("1"), LENET_ADD_LAYERS_IMG |-> S("3"),
           LENET_ADD_LAYERS_AUD |-> S("5"), CHANNELS |-> S("6"), MLP_IN_DIM |-> S("240"),
           MLP_LOW_RANK_IN_DIM |-> S("120"), MLP_HIDDEN_DIM |-> S("100"), OUT_DIM |-> S("2"),
           FUSION |-> S("late"), MULTIPLICATIVE_FUSION_IN_DIM |-> R(5),
           MULTIPLICATIVE_FUSION_OUT_DIM |-> S("240"), MULTIPLICATIVE_OUTPUT |-> S("matrix"),
           LOW_RANK_TENSOR_IN_DIM |-> R(6), LOW_RANK_TENSOR_OUT_DIM |-> S("120"),
           LOW_RANK_TENSOR_RANK |-> S("40")]),
       PyList(<<S("48"), S("192")>>),
       PyList(<<S("48"), S("192")>>) >>

multisource_C ==
    << CN([DATASET |-> R(8), SOLVER |-> R(9), DAN |-> R(10), OUTPUT |-> R(11)]),
       CN([ROOT |-> S("../data"), NAME |-> S("digits"), TARGET |-> S("MNIST"),
           NUM_CLASSES |-> S("10"), NUM_REPEAT |-> S("10"), NUM_CHANNELS |-> S("3"),
           DIMENSION |-> S("784"), WEIGHT_TYPE |-> S("natural"), SIZE_TYPE |-> S("source")]),
       CN([SEED |-> S("2020"), BASE_LR |-> S("0.001"), MOMENTUM |-> S("0.9"),
           WEIGHT_DECAY |-> S("0.0005"), NESTEROV |-> S("True"), TYPE |-> S("SGD"),
           MAX_EPOCHS |-> S("120"), MIN_EPOCHS |-> S("20"), TRAIN_BATCH_SIZE |-> S("100"),
           TEST_BATCH_SIZE |-> S("100"), AD_LAMBDA |-> S("True"), AD_LR |-> S("True"),
           INIT_LAMBDA |-> S("1")]),
       CN([METHOD |-> S("M3SDA"), USERANDOM |-> S("False"), RANDOM_DIM |-> S("1024")]),
       CN([ROOT |-> S("./outputs"), VERBOSE |-> S("False"), PB_FRESH |-> S("0"),
           TB_DIR |-> S("lightning_logs/TgtMNIST")]) >>

cmri_C ==
    << CN([DATASET |-> R(13), PROC |-> R(14), IM_KWARGS |-> R(15), MARKER_KWARGS |-> R(16),
           WEIGHT_KWARGS |-> R(17), PLT_KWARGS |-> R(18), PIPELINE |-> R(19),
           OUTPUT |-> R(20), SAVE_FIG_KWARGS |-> R(21)]),
       CN([SOURCE |-> S("https://github.com/pykale/data/raw/main/images/ShefPAH-179/SA_64x64_v2.0.zip"),
           ROOT |-> S("../data"), IMG_DIR |-> S("DICOM"), BASE_DIR |-> S("SA_64x64_v2.0"),
           FILE_FORAMT |-> S("zip"), LANDMARK_FILE |-> S("landmarks.csv"),
           MASK_DIR |-> S("Mask")]),
       CN([SCALE |-> S("2")]),
       CN([cmap |-> S("gray")]),
       CN([marker |-> S("+"), color |-> S("r"), s |-> S("100"), linewidths |-> S("1.5"),
           edgecolors |-> S("face")]),
       CN([markersize |-> S("6"), alpha |-> S("0.7")]),
       CN([n_cols |-> S("10")]),
       CN([CLASSIFIER |-> S("linear_svc")]),
       CN([ROOT |-> S("./outputs"), SAVE_FIG |-> S("True")]),
       CN([format |-> S("pdf"), bbox_inches |-> S("tight")]) >>

ModuleHeap == avmnist_C \o multisource_C \o cmri_C

\* the module-level name _C of each config module
_C == [m \in Modules |->
         CASE m = "avmnist_multimodal" -> 1
           [] m = "multisource_adapt" -> 7
           [] m = "cmri_mpca" -> 12]

\* the value tree below an object, identities abstracted away
RECURSIVE TreeOf(_, _)
TreeOf(h, id) ==
    LET o == h[id]
        sub(v) == IF v.t = "ref" THEN [t |-> "obj", tree |-> TreeOf(h, v.id)]
                                 ELSE [t |-> "val", tree |-> v.v]
    IN  IF o.kind = "node"
        THEN [kind |-> "node", f |-> [k \in DOMAIN o.f |-> sub(o.f[k])], items |-> <<>>]
        ELSE [kind |-> "list", f |-> <<>>, items |-> [i \in DOMAIN o.items |-> sub(o.items[i])]]

\* the identities reachable from an object, itself included
RECURSIVE Reach(_, _)
Reach(h, id) ==
    LET o == h[id]
        vals == IF o.kind = "node" THEN {o.f[k] : k \in DOMAIN o.f} ELSE Range(o.items)
    IN  {id} \cup UNION {Reach(h, v.id) : v \in {w \in vals : w.t = "ref"}}

\* CfgNode.clone() is copy.deepcopy(self): every reachable object is copied
\* and the references inside the copies point to the copies
clone_shallow(h, root) ==
    [heap |-> Append(h, h[root]), root |-> Len(h) + 1]

clone(h, root) ==
    LET old == Reach(h, root)
        new(id) == Len(h) + Cardinality({j \in old : j <= id})
        mv(v) == IF v.t = "ref" THEN R(new(v.id)) ELSE v
        copy(o) == [kind |-> o.kind,
                    f |-> [k \in DOMAIN o.f |-> mv(o.f[k])],
                    items |-> [i \in DOMAIN o.items |-> mv(o.items[i])]]
        src(n) == CHOOSE id \in old : new(id) = n
    IN  [heap |-> [n \in 1..(Len(h) + Cardinality(old)) |->
                     IF n <= Len(h) THEN h[n] ELSE copy(h[src(n)])],
         root |-> new(root)]

\* the keys the callers assign to, per module
AssignPaths(m) ==
    CASE m = "avmnist_multimodal" ->
           { <<"OUTPUT_DIR">>, <<"MODEL">>, <<"DATASET">>,
             <<"MODEL", "MULTIPLICATIVE_FUSION_IN_DIM">>, <<"DATASET", "BATCH_SIZE">> }
      [] m = "multisource_adapt" ->
           { <<"DATASET">>, <<"DATASET", "TARGET">>, <<"OUTPUT", "TB_DIR">> }
      [] m = "cmri_mpca" ->
           { <<"PROC">>, <<"PROC", "SCALE">>, <<"MARKER_KWARGS", "s">> }

ValueKinds == {"scalar", "node", "list"}

\* the object whose key path[Len(path)] names, 0 when the attribute lookup fails
Holder(h, root, path) ==
    IF Len(path) = 1 THEN root
    ELSE LET f == h[root].f
         IN  IF path[1] \in DOMAIN f /\ f[path[1]].t = "ref" /\ h[f[path[1]].id].kind = "node"
             THEN f[path[1]].id
             ELSE 0

DataIdle ==
    /\ access = None
    /\ dataset = None
    /\ loader = None
    /\ batch = <<>>

LossIdle ==
    /\ pc = "idle"
    /\ args = None
    /\ locals = None
    /\ ret = None
    /\ hist = <<>>
    /\ rng = None /\ run = 1
    /\ DataIdle

CfgInit ==
    /\ LossIdle
    /\ heap = ModuleHeap
    /\ cfgs = <<>>
    /\ op = [name |-> "import", module |-> "", target |-> 0]
    /\ nassign = 0

get_cfg_defaults(m) ==
    /\ Len(cfgs) < MaxCfgs
    /\ LET c == clone(heap, _C[m])
       IN  /\ heap' = c.heap
           /\ cfgs' = Append(cfgs, [module |-> m, root |-> c.root])
    /\ op' = [name |-> "get_cfg_defaults", module |-> m, target |-> Len(cfgs) + 1]
    /\ UNCHANGED <<nassign, lossVars, rngVars, dataVars>>

\* cfg.KEY = value or cfg.NODE.KEY = value on a returned config
SetAttr(c, path, kind) ==
    /\ nassign < MaxAssign
    /\ LET hd == Holder(heap, cfgs[c].root, path)
           key == path[Len(path)]
           fresh == Len(heap) + 1
           put(v) == [k \in DOMAIN heap[hd].f \cup {key} |->
                        IF k = key THEN v ELSE heap[hd].f[k]]
       IN  /\ hd # 0
           /\ CASE kind = "scalar" ->
                     heap' = [heap EXCEPT ![hd].f = put(S("new"))]
                [] kind = "node" ->
                     heap' = Append([heap EXCEPT ![hd].f = put(R(fresh))], CN(<<>>))
                [] kind = "list" ->
                     heap' = Append([heap EXCEPT ![hd].f = put(R(fresh))], PyList(<<S("1")>>))
    /\ op' = [name |-> "setattr", module |-> cfgs[c].module, target |-> c]
    /\ nassign' = nassign + 1
    /\ UNCHANGED <<cfgs, lossVars, rngVars, dataVars>>

\* cfg.NODE.KEY[i] = value on a list value of a returned config
SetItem(c, path, i) ==
    /\ nassign < MaxAssign
    /\ LET hd == Holder(heap, cfgs[c].root, path)
           key == path[Len(path)]
       IN  /\ hd # 0
           /\ key \in DOMAIN heap[hd].f
           /\ heap[hd].f[key].t = "ref"
           /\ LET l == heap[hd].f[key].id
              IN  /\ heap[l].kind = "list"
                  /\ i \in DOMAIN heap[l].items
                  /\ heap' = [heap EXCEPT ![l].items[i] = S("new")]
    /\ op' = [name |-> "setitem", module |-> cfgs[c].module, target |-> c]
    /\ nassign' = nassign + 1
    /\ UNCHANGED <<cfgs, lossVars, rngVars, dataVars>>

CallGetCfgDefaults == \E m \in Modules : get_cfg_defaults(m)

AssignKey ==
    \E c \in DOMAIN cfgs : \E path \in AssignPaths(cfgs[c].module) :
       \E kind \in ValueKinds : SetAttr(c, path, kind)

AssignListItem ==
    \E c \in DOMAIN cfgs : \E path \in AssignPaths(cfgs[c].module) :
       \E i \in 1..2 : SetItem(c, path, i)

CfgNext == CallGetCfgDefaults \/ AssignKey \/ AssignListItem

SpecCfg == CfgInit /\ [][CfgNext]_vars

DefaultTree(m) == TreeOf(ModuleHeap, _C[m])

\* C1: across get_cfg_defaults() calls and assignments to returned configs,
\* the module-level defaults keep their original value, every returned
\* config other than the one assigned to keeps its value, and each
\* get_cfg_defaults() call returns a tree equal to the original defaults.
C1_CloneIsolation ==
    [][ /\ \A m \in Modules : TreeOf(heap', _C[m]) = DefaultTree(m)
        /\ \A c \in DOMAIN cfgs :
              c # op'.target => TreeOf(heap', cfgs'[c].root) = TreeOf(heap, cfgs[c].root)
        /\ op'.name = "get_cfg_defaults" =>
              TreeOf(heap', cfgs'[Len(cfgs')].root) = DefaultTree(op'.module) ]_vars

\* a second config of a module is fetched after a nested key or list item of
\* the first one was assigned
C1_Witness ==
    /\ op.name = "get_cfg_defaults"
    /\ Len(cfgs) >= 2
    /\ \E c \in 1..(Len(cfgs) - 1) :
          /\ cfgs[c].module = op.module
          /\ TreeOf(heap, cfgs[c].root) # DefaultTree(op.module)
          /\ \E k \in DOMAIN heap[cfgs[c].root].f :
                /\ heap[cfgs[c].root].f[k].t = "ref"
                /\ TreeOf(heap, heap[cfgs[c].root].f[k].id)
                     # TreeOf(ModuleHeap, ModuleHeap[_C[op.module]].f[k].id)

-----------------------------------------------------------------------------
(* Exact arithmetic for the tensor expressions of kale/predict/losses.py   *)

\* a rational n/d; d = 0 stands for a non-finite float (inf or nan)
Q(n, d) == [n |-> n, d |-> d]

QEq(a, b) == IF a.d = 0 \/ b.d = 0 THEN a.d = 0 /\ b.d = 0 /\ a.n = b.n
             ELSE a.n * b.d = b.n * a.d

Rows(M) == Len(M)

Cols(M) == Len(M[1])

RECURSIVE SumTo(_, _)
\* f(1) + ... + f(n)
SumTo(f(_), n) == IF n = 0 THEN 0 ELSE SumTo(f, n - 1) + f(n)

\* torch.mm on integer matrices
mm(A, B) ==
    [i \in 1..Rows(A) |-> [j \in 1..Cols(B) |->
        LET term(k) == A[i][k] * B[k][j] IN SumTo(term, Cols(A))]]

\* torch.trace
trace(A) == LET d(i) == A[i][i] IN SumTo(d, Rows(A))

\* n * (torch.eye(n) - torch.ones((n, n)) / n), the centering matrix times n
ctr_mat_num(n) == [i \in 1..n |-> [j \in 1..n |-> (IF i = j THEN n ELSE 0) - 1]]

-----------------------------------------------------------------------------
(* hsic                                                                    *)

\* symmetric n x n matrices with entries in vals
SymMatrices(n, vals) ==
    LET UT == {p \in (1..n) \X (1..n) : p[1] <= p[2]}
    IN  { [i \in 1..n |-> [j \in 1..n |-> IF i <= j THEN u[<<i, j>>] ELSE u[<<j, i>>]]] :
            u \in [UT -> vals] }

RECURSIVE Det(_, _, _)
\* determinant of the submatrix of M on the rows and columns listed
Det(M, rs, cs) ==
    IF Len(rs) = 0 THEN 1
    ELSE LET t(k) == (IF k % 2 = 1 THEN 1 ELSE -1) * M[rs[1]][cs[k]]
                       * Det(M, Tail(rs), SubSeq(cs, 1, k - 1) \o SubSeq(cs, k + 1, Len(cs)))
         IN  SumTo(t, Len(cs))

RECURSIVE SetToSeq(_)
SetToSeq(s) == IF s = {} THEN <<>>
               ELSE LET m == CHOOSE x \in s : \A y \in s : x <= y
                    IN  <<m>> \o SetToSeq(s \ {m})

\* positive semi-definite: every principal minor is non-negative
IsPSD(M) == \A s \in SUBSET (1..Rows(M)) : Det(M, SetToSeq(s), SetToSeq(s)) >= 0

\* kernel (Gram) matrices of n samples: symmetric and positive semi-definite
KernelMatrices(n) == {M \in SymMatrices(n, (-MaxEntry)..MaxEntry) : IsPSD(M)}

HsicInputs == UNION {KernelMatrices(n) : n \in 1..MaxSamples}

HsicInit ==
    /\ heap = <<>> /\ cfgs = <<>> /\ op = None /\ nassign = 0
    /\ pc = "hsic"
    /\ \E kx \in HsicInputs, ky \in HsicInputs : args = [kx |-> kx, ky |-> ky]
    /\ locals = [n |-> None, ctr_mat |-> None]
    /\ ret = None
    /\ hist = <<>>
    /\ rng = None /\ run = 1
    /\ DataIdle

\* n = kx.shape[0]; if ky.shape[0] != n: raise ValueError(...)
hsic_check_unchecked ==
    /\ pc = "hsic"
    /\ locals' = [locals EXCEPT !.n = Rows(args.kx)]
    /\ pc' = "ctr_mat"
    /\ UNCHANGED <<args, ret, hist, cfgVars, rngVars, dataVars>>

hsic_check ==
    /\ pc = "hsic"
    /\ locals' = [locals EXCEPT !.n = Rows(args.kx)]
    /\ IF Rows(args.ky) # Rows(args.kx)
       THEN /\ pc' = "raised"
            /\ ret' = [raised |-> "ValueError"]
       ELSE /\ pc' = "ctr_mat"
            /\ UNCHANGED ret
    /\ UNCHANGED <<args, hist, cfgVars, rngVars, dataVars>>

\* ctr_mat = torch.eye(n) - torch.ones((n, n)) / n
hsic_ctr_mat ==
    /\ pc = "ctr_mat"
    /\ locals' = [locals EXCEPT !.ctr_mat = [num |-> ctr_mat_num(locals.n), den |-> locals.n]]
    /\ pc' = "score"
    /\ UNCHANGED <<args, ret, hist, cfgVars, rngVars, dataVars>>

\* torch.trace(torch.mm(torch.mm(torch.mm(kx, ctr_mat), ky), ctr_mat)) / (n ** 2)
hsic_score_transposed(kx, ky, ctr, n) ==
    Q(trace(mm(mm(mm(kx, ctr.num), ctr.num), ky)), ctr.den * ctr.den * n * n)

hsic_score(kx, ky, ctr, n) ==
    Q(trace(mm(mm(mm(kx, ctr.num), ky), ctr.num)), ctr.den * ctr.den * n * n)

hsic_return ==
    /\ pc = "score"
    /\ pc' = "done"
    /\ ret' = hsic_score(args.kx, args.ky, locals.ctr_mat, locals.n)
    /\ UNCHANGED <<args, locals, hist, cfgVars, rngVars, dataVars>>

HsicNext == hsic_check \/ hsic_ctr_mat \/ hsic_return

SpecHsic == HsicInit /\ [][HsicNext]_vars

\* trace(kx H ky H) expanded entry by entry, H = I - (1/n) * ones(n, n):
\* tr(kx ky) - (1/n) 1'(ky kx)1 - (1/n) 1'(kx ky)1 + (1/n^2) (1'kx 1)(1'ky 1)
HsicReference(kx, ky) ==
    LET n == Rows(kx)
        all(M) == LET r(i) == LET c(j) == M[i][j] IN SumTo(c, n) IN SumTo(r, n)
    IN  Q(n * n * trace(mm(kx, ky)) - n * all(mm(ky, kx)) - n * all(mm(kx, ky))
            + all(kx) * all(ky),
          n * n * n * n)

\* C3: for kernel matrices kx, ky of the same shape (n, n), n >= 1, hsic
\* returns trace(kx H ky H) / n^2 and that score is >= 0.
C3_HsicNonNegative ==
    pc = "done" =>
        /\ ret.d > 0
        /\ ret.n >= 0
        /\ QEq(ret, HsicReference(args.kx, args.ky))

\* hsic returned a strictly positive score for two 3 x 3 kernel matrices
C3_Witness ==
    /\ pc = "done"
    /\ Rows(args.kx) = 3
    /\ args.kx # args.ky
    /\ ret.n > 0

\* C4: hsic raises ValueError exactly when the row counts of kx and ky
\* differ, and then neither the centering matrix nor the score was computed.
C4_HsicShapeCheck ==
    /\ (Rows(args.ky) # Rows(args.kx) /\ pc # "hsic") =>
          /\ pc = "raised"
          /\ ret = [raised |-> "ValueError"]
          /\ locals.ctr_mat = None
    /\ Rows(args.ky) = Rows(args.kx) => ret # [raised |-> "ValueError"]

\* hsic raised for kernel matrices of 2 and 3 samples
C4_Witness ==
    /\ pc = "raised"
    /\ Rows(args.kx) = 2
    /\ Rows(args.ky) = 3

-----------------------------------------------------------------------------
(* compute_mmd_loss                                                        *)

\* kernel_values of shape (2B, 2B), indexed from 0 as in Python:
\* entries without any symmetry ...
GenericKernelValues(B) ==
    { [a \in 0..(2 * B - 1) |-> [b \in 0..(2 * B - 1) |-> p * a + q * b + r * a * b + c]] :
        p \in 0..MaxCoef, q \in 0..MaxCoef, r \in 0..MaxCoef, c \in 0..MaxCoef }

\* ... and symmetric kernel values of a target batch equal to the source batch
IdenticalKernelValues(B) ==
    LET UT == {e \in (0..(B - 1)) \X (0..(B - 1)) : e[1] <= e[2]}
        at(u, i, j) == IF i <= j THEN u[<<i, j>>] ELSE u[<<j, i>>]
    IN  { [a \in 0..(2 * B - 1) |-> [b \in 0..(2 * B - 1) |-> at(u, a % B, b % B)]] :
            u \in [UT -> 0..MaxK] }

MmdInit ==
    /\ heap = <<>> /\ cfgs = <<>> /\ op = None /\ nassign = 0
    /\ pc = "compute_mmd_loss"
    /\ \E B \in 1..MaxBatch :
         \E K \in GenericKernelValues(B) \cup IdenticalKernelValues(B) :
            args = [kernel_values |-> K, batch_size |-> B]
    /\ locals = None
    /\ ret = None
    /\ hist = <<>>
    /\ rng = None /\ run = 1
    /\ DataIdle

\* loss = 0
mmd_start ==
    /\ pc = "compute_mmd_loss"
    /\ locals' = [loss |-> 0, i |-> 0, reads |-> {}, visited |-> <<>>]
    /\ pc' = "for"
    /\ UNCHANGED <<args, ret, hist, cfgVars, rngVars, dataVars>>

\* the body of the loop for one i: the indices read and the change of loss
mmd_body_same_row(kernel_values, batch_size, i) ==
    LET s1 == i
        s2 == (i + 1) % batch_size
        t1 == s1 + batch_size
        t2 == s2 + batch_size
    IN  [reads |-> {<<s1, s2>>, <<t1, t2>>, <<s1, t2>>, <<s1, t1>>},
         delta |-> (kernel_values[s1][s2] + kernel_values[t1][t2])
                     - (kernel_values[s1][t2] + kernel_values[s1][t1])]

mmd_body(kernel_values, batch_size, i) ==
    LET s1 == i
        s2 == (i + 1) % batch_size
        t1 == s1 + batch_size
        t2 == s2 + batch_size
    IN  [reads |-> {<<s1, s2>>, <<t1, t2>>, <<s1, t2>>, <<s2, t1>>},
         delta |-> (kernel_values[s1][s2] + kernel_values[t1][t2])
                     - (kernel_values[s1][t2] + kernel_values[s2][t1])]

\* for i in range(batch_size): ...
mmd_iterate ==
    /\ pc = "for"
    /\ locals.i < args.batch_size
    /\ LET b == mmd_body(args.kernel_values, args.batch_size, locals.i)
       IN  locals' = [loss |-> locals.loss + b.delta,
                      i |-> locals.i + 1,
                      reads |-> locals.reads \cup b.reads,
                      visited |-> Append(locals.visited, locals.i)]
    /\ UNCHANGED <<pc, args, ret, hist, cfgVars, rngVars, dataVars>>

\* return loss / float(batch_size)
mmd_return ==
    /\ pc = "for"
    /\ locals.i >= args.batch_size
    /\ ret' = Q(locals.loss, args.batch_size)
    /\ pc' = "done"
    /\ UNCHANGED <<args, locals, hist, cfgVars, rngVars, dataVars>>

MmdNext == mmd_start \/ mmd_iterate \/ mmd_return

SpecMmd == MmdInit /\ [][MmdNext]_vars

\* the linear MMD estimate, term by term
LinearMmd(K, B) ==
    LET t(n) == LET i == n - 1
                    j == (i + 1) % B
                IN  K[i][j] + K[i + B][j + B] - K[i][j + B] - K[j][i + B]
    IN  Q(SumTo(t, B), B)

\* the target batch equals the source batch and the kernel is symmetric
IsIdenticalDomains(K, B) ==
    \A a \in 0..(2 * B - 1), b \in 0..(2 * B - 1) :
       /\ K[a][b] = K[a % B][b % B]
       /\ K[a][b] = K[b][a]

\* C7: compute_mmd_loss(K, B) reads only indices in [0, 2B), visits each
\* i in 0..B-1 exactly once and returns
\* (1/B) * sum_i (K[i,j] + K[i+B,j+B] - K[i,j+B] - K[j,i+B]), j = (i+1) mod B.
C7_LinearMmdEstimate ==
    /\ pc \in {"for", "done"} =>
          /\ \A e \in locals.reads :
                e[1] \in 0..(2 * args.batch_size - 1) /\ e[2] \in 0..(2 * args.batch_size - 1)
          /\ \A m, n \in DOMAIN locals.visited : m # n => locals.visited[m] # locals.visited[n]
    /\ pc = "done" =>
          /\ Range(locals.visited) = 0..(args.batch_size - 1)
          /\ QEq(ret, LinearMmd(args.kernel_values, args.batch_size))

\* a batch of 3 with kernel values that are not symmetric gave a non-zero loss
C7_Witness ==
    /\ pc = "done"
    /\ args.batch_size = 3
    /\ args.kernel_values[0][4] # args.kernel_values[4][0]
    /\ ret.n # 0

\* C8: for symmetric kernel values of a target batch equal to the source
\* batch, compute_mmd_loss returns exactly 0.
C8_ZeroForIdenticalDomains ==
    (pc = "done" /\ IsIdenticalDomains(args.kernel_values, args.batch_size)) => ret.n = 0

\* identical domains with a batch of 3 whose kernel values are not all equal
C8_Witness ==
    /\ pc = "done"
    /\ args.batch_size = 3
    /\ IsIdenticalDomains(args.kernel_values, args.batch_size)
    /\ args.kernel_values[0][1] # args.kernel_values[0][0]
    /\ args.kernel_values[0][1] # args.kernel_values[1][2]

-----------------------------------------------------------------------------
(* gaussian_kernel                                                         *)

RECURSIVE Pow(_, _)
Pow(b, e) == IF e = 0 THEN 1 ELSE b * Pow(b, e - 1)

Samples == UNION {[1..r -> [1..NFeatures -> 0..MaxX]] : r \in 1..MaxRows}

\* fix_sigma as the caller holds it: None, a Python number or a one-element
\* tensor (an object that in-place operators can change)
FixSigmas ==
    {[kind |-> "None", val |-> Q(0, 1)]}
      \cup {[kind |-> k, val |-> Q(v, 1)] : k \in {"number", "tensor"}, v \in 0..MaxSigma}

\* bool(fix_sigma)
Truthy(fix_sigma) == fix_sigma.kind # "None" /\ fix_sigma.val.n # 0

\* ((total0 - total1) ** 2).sum(2) for total = torch.cat([source, target])
L2_distance(source, target) ==
    LET total == source \o target
    IN  [a \in 1..Len(total) |-> [b \in 1..Len(total) |->
           LET sq(c) == (total[a][c] - total[b][c]) * (total[a][c] - total[b][c])
           IN  SumTo(sq, Len(total[a]))]]

\* torch.sum(L2_distance.data)
SumAll(M) == LET r(i) == LET c(j) == M[i][j] IN SumTo(c, Len(M[i])) IN SumTo(r, Len(M))

\* the value of the local name bandwidth: it is either the caller's
\* fix_sigma tensor itself or a value of its own
BandwidthOf(a, l) == IF l.bandwidth.is = "fix_sigma" THEN a.fix_sigma.val ELSE l.bandwidth.val

GkInit ==
    /\ heap = <<>> /\ cfgs = <<>> /\ op = None /\ nassign = 0
    /\ pc = "gaussian_kernel"
    /\ \E source \in Samples, target \in Samples, kernel_mul \in 1..MaxMul,
          kernel_num \in 1..MaxKernelNum, fix_sigma \in FixSigmas :
         args = [source |-> source, target |-> target, kernel_mul |-> kernel_mul,
                 kernel_num |-> kernel_num, fix_sigma |-> fix_sigma]
    /\ locals = None
    /\ ret = None
    /\ hist = <<>>
    /\ rng = None /\ run = 1
    /\ DataIdle

\* n_samples = ...; total = ...; L2_distance = ((total0 - total1) ** 2).sum(2)
gk_distance ==
    /\ pc = "gaussian_kernel"
    /\ locals' = [n_samples |-> Len(args.source) + Len(args.target),
                  L2_distance |-> L2_distance(args.source, args.target),
                  bandwidth |-> None,
                  called_with |-> args]
    /\ pc' = "if fix_sigma"
    /\ UNCHANGED <<args, ret, hist, cfgVars, rngVars, dataVars>>

\* if fix_sigma: bandwidth = fix_sigma
\* else: bandwidth = torch.sum(L2_distance.data) / (n_samples ** 2 - n_samples)
gk_bandwidth ==
    /\ pc = "if fix_sigma"
    /\ locals' = [locals EXCEPT !.bandwidth =
          IF Truthy(args.fix_sigma)
          THEN IF args.fix_sigma.kind = "tensor"
               THEN [is |-> "fix_sigma", val |-> None]
               ELSE [is |-> "number", val |-> args.fix_sigma.val]
          ELSE [is |-> "tensor",
                val |-> Q(SumAll(locals.L2_distance),
                          locals.n_samples * locals.n_samples - locals.n_samples)]]
    /\ pc' = "bandwidth /="
    /\ UNCHANGED <<args, ret, hist, cfgVars, rngVars, dataVars>>

\* kernel_mul ** (kernel_num // 2)
gk_divisor_full(kernel_mul, kernel_num) == Pow(kernel_mul, kernel_num)

gk_divisor(kernel_mul, kernel_num) == Pow(kernel_mul, kernel_num \div 2)

\* bandwidth /= kernel_mul ** (kernel_num // 2): a tensor is divided in
\* place, a Python number is replaced by the quotient
gk_divide ==
    /\ pc = "bandwidth /="
    /\ LET b == BandwidthOf(args, locals)
           q == Q(b.n, b.d * gk_divisor(args.kernel_mul, args.kernel_num))
       IN  IF locals.bandwidth.is = "fix_sigma"
           THEN /\ args' = [args EXCEPT !.fix_sigma.val = q]
                /\ UNCHANGED locals
           ELSE /\ locals' = [locals EXCEPT !.bandwidth.val = q]
                /\ UNCHANGED args
    /\ pc' = "bandwidth_list"
    /\ UNCHANGED <<ret, hist, cfgVars, rngVars, dataVars>>

\* bandwidth_list = [bandwidth * (kernel_mul ** i) for i in range(kernel_num)]
bandwidth_list(bandwidth, kernel_mul, kernel_num) ==
    [k \in 1..kernel_num |-> Q(bandwidth.n * Pow(kernel_mul, k - 1), bandwidth.d)]

\* sum of torch.exp(-L2_distance / bandwidth_temp): every entry is kept as
\* the list of its exponents -L2_distance / bandwidth_temp
kernel_val(L2, bws) ==
    [a \in DOMAIN L2 |-> [b \in DOMAIN L2[a] |->
        [k \in DOMAIN bws |-> Q(-(L2[a][b] * bws[k].d), bws[k].n)]]]

gk_return ==
    /\ pc = "bandwidth_list"
    /\ LET bws == bandwidth_list(BandwidthOf(args, locals), args.kernel_mul, args.kernel_num)
       IN  /\ ret' = [bandwidth_list |-> bws, sum |-> kernel_val(locals.L2_distance, bws)]
           /\ hist' = Append(hist, [called_with |-> locals.called_with, bandwidth_list |-> bws])
    /\ pc' = "done"
    /\ UNCHANGED <<args, locals, cfgVars, rngVars, dataVars>>

\* the caller calls again with the same objects
gk_call_again ==
    /\ pc = "done"
    /\ Len(hist) < MaxCalls
    /\ pc' = "gaussian_kernel"
    /\ locals' = None
    /\ ret' = None
    /\ UNCHANGED <<args, hist, cfgVars, rngVars, dataVars>>

GkNext == gk_distance \/ gk_bandwidth \/ gk_divide \/ gk_return \/ gk_call_again

SpecGk == GkInit /\ [][GkNext]_vars

\* base * kernel_mul^e for an exponent of either sign
Scaled(base, kernel_mul, e) ==
    IF e >= 0 THEN Q(base.n * Pow(kernel_mul, e), base.d)
    ELSE Q(base.n, base.d * Pow(kernel_mul, -e))

\* sum of all pairwise squared distances of the rows, divided by n^2 - n
MeanSquaredDistance(source, target) ==
    LET total == source \o target
        n == Len(total)
        row(a) == LET col(b) == LET sq(c) == (total[a][c] - total[b][c]) * (total[a][c] - total[b][c])
                                IN  SumTo(sq, NFeatures)
                  IN  SumTo(col, n)
    IN  Q(SumTo(row, n), n * n - n)

BandwidthsFrom(base, a, bws) ==
    /\ Len(bws) = a.kernel_num
    /\ \A i \in 0..(a.kernel_num - 1) :
          QEq(bws[i + 1], Scaled(base, a.kernel_mul, i - (a.kernel_num \div 2)))
    /\ QEq(bws[(a.kernel_num \div 2) + 1], base)

\* C9 as claimed: the base bandwidth is fix_sigma whenever fix_sigma is not
\* None (0 included), and the mean squared distance otherwise.
C9_BaseIsFixSigmaUnlessNone ==
    pc = "done" =>
        LET a == locals.called_with
        IN  BandwidthsFrom(IF a.fix_sigma.kind # "None" THEN a.fix_sigma.val
                           ELSE MeanSquaredDistance(a.source, a.target),
                           a, ret.bandwidth_list)

\* C9: gaussian_kernel sums kernel_num kernels with bandwidths
\* base * kernel_mul^(i - kernel_num // 2), i = 0..kernel_num-1; the base is
\* fix_sigma when fix_sigma is neither None nor zero, and otherwise the sum of
\* the pairwise squared distances divided by n^2 - n.
C9_Bandwidths ==
    pc = "done" =>
        LET a == locals.called_with
        IN  /\ BandwidthsFrom(IF a.fix_sigma.kind # "None" /\ a.fix_sigma.val.n # 0
                              THEN a.fix_sigma.val
                              ELSE MeanSquaredDistance(a.source, a.target),
                              a, ret.bandwidth_list)
            /\ \A x \in DOMAIN ret.sum : \A y \in DOMAIN ret.sum[x] :
                  Len(ret.sum[x][y]) = a.kernel_num

\* a call with fix_sigma = 0 and distinct samples returned five kernels
C9_Witness ==
    /\ pc = "done"
    /\ locals.called_with.fix_sigma.kind = "number"
    /\ locals.called_with.fix_sigma.val.n = 0
    /\ locals.called_with.kernel_num = 5
    /\ locals.called_with.kernel_mul = 2
    /\ ret.bandwidth_list[3].n # 0

\* C10: source, target and fix_sigma hold the values they had before the
\* first call, and every call made with them uses the same bandwidths.
C10_ArgumentsUnchanged ==
    /\ hist # <<>> => args = hist[1].called_with
    /\ \A i, j \in DOMAIN hist : hist[i].bandwidth_list = hist[j].bandwidth_list

-----------------------------------------------------------------------------
(* gradient_penalty                                                        *)

QAdd(a, b) == Q(a.n * b.d + b.n * a.d, a.d * b.d)

RECURSIVE QSum(_)
QSum(qs) == IF qs = <<>> THEN Q(0, 1) ELSE QAdd(qs[1], QSum(Tail(qs)))

\* the generator of the executing run: the values it will produce and how
\* many of them were consumed
default_generator == rng[run]

\* torch.rand(n, 1): the next n values of the generator, each in [0, 1),
\* as numerators over AlphaDen
torch_rand(n) == [i \in 1..n |-> default_generator.stream[default_generator.pos + i]]

\* critics whose gradient norm is rational: x[1], 2 * x[1], x[1]^2 / 2 and
\* x[d]^2 / 2
Critics == {"first", "double", "half_square", "half_square_last"}

\* gradients.norm(2, dim=1) of the critic at a point given times AlphaDen
GradNorm(critic, x) ==
    CASE critic = "first" -> Q(1, 1)
      [] critic = "double" -> Q(2, 1)
      [] critic = "half_square" -> Q(Abs(x[1]), AlphaDen)
      [] critic = "half_square_last" -> Q(Abs(x[Len(x)]), AlphaDen)

\* interpolates = h_s + (alpha * differences), every entry times AlphaDen
interpolate_per_feature(alpha, h_s, h_t) ==
    [i \in DOMAIN h_s |-> [c \in DOMAIN h_s[i] |->
        AlphaDen * h_s[i][c] + ((alpha[i][c] + c - 1) % AlphaDen) * (h_t[i][c] - h_s[i][c])]]

interpolate(alpha, h_s, h_t) ==
    [i \in DOMAIN h_s |-> [c \in DOMAIN h_s[i] |->
        AlphaDen * h_s[i][c] + alpha[i][c] * (h_t[i][c] - h_s[i][c])]]

\* the function with its local variables; value is what it returns
gradient_penalty(critic, h_s, h_t) ==
    LET drawn == torch_rand(Len(h_s))
        alpha == [i \in DOMAIN h_s |-> [c \in DOMAIN h_s[i] |-> drawn[i]]]
        scaled(h) == [i \in DOMAIN h |-> [c \in DOMAIN h[i] |-> AlphaDen * h[i][c]]]
        interpolates == interpolate(alpha, h_s, h_t) \o scaled(h_s) \o scaled(h_t)
        gradient_norm == [k \in DOMAIN interpolates |-> GradNorm(critic, interpolates[k])]
        sq(k) == LET g == gradient_norm[k] IN Q((g.n - g.d) * (g.n - g.d), g.d * g.d)
        total == QSum([k \in DOMAIN interpolates |-> sq(k)])
    IN  [drawn |-> drawn,
         alpha |-> alpha,
         interpolates |-> interpolates,
         gradient_norm |-> gradient_norm,
         value |-> Q(total.n, total.d * Len(interpolates))]

GpInputs(n) == [1..n -> [1..GpFeatures -> 0..MaxH]]

GpInit ==
    /\ heap = <<>> /\ cfgs = <<>> /\ op = None /\ nassign = 0
    /\ pc = "gradient_penalty"
    /\ \E n \in 1..MaxGpRows :
         \E h_s \in GpInputs(n), h_t \in GpInputs(n), critic \in Critics :
            args = [critic |-> critic, h_s |-> h_s, h_t |-> h_t]
    /\ locals = None
    /\ ret = None
    /\ hist = <<>>
    /\ run = 1
    /\ DataIdle
    /\ \E stream \in [1..MaxGpRows -> 0..(AlphaDen - 1)] :
         rng = <<[stream |-> stream, pos |-> 0]>>

gp_call ==
    /\ pc = "gradient_penalty"
    /\ LET r == gradient_penalty(args.critic, args.h_s, args.h_t)
       IN  /\ locals' = r
           /\ ret' = r.value
    /\ rng' = [rng EXCEPT ![run].pos = @ + Len(args.h_s)]
    /\ pc' = "done"
    /\ UNCHANGED <<args, hist, run, cfgVars, dataVars>>

GpNext == gp_call

SpecGp == GpInit /\ [][GpNext]_vars

\* x (times AlphaDen) is h_s[i] + a * (h_t[i] - h_s[i]) for a real a in [0, 1)
OnHalfOpenSegment(x, hs, ht) ==
    LET u == [c \in DOMAIN x |-> x[c] - AlphaDen * hs[c]]
        w == [c \in DOMAIN x |-> AlphaDen * (ht[c] - hs[c])]
        uw == LET t(c) == u[c] * w[c] IN SumTo(t, Len(x))
        ww == LET t(c) == w[c] * w[c] IN SumTo(t, Len(x))
    IN  IF ww = 0 THEN \A c \in DOMAIN x : u[c] = 0
        ELSE /\ \A c, e \in DOMAIN x : u[c] * w[e] = u[e] * w[c]
             /\ 0 <= uw
             /\ uw < ww

NormIsOne(g) == g.n = g.d

MeanPenalty(norms) ==
    LET total == QSum([k \in DOMAIN norms |->
                         Q((norms[k].n - norms[k].d) * (norms[k].n - norms[k].d),
                           norms[k].d * norms[k].d)])
    IN  Q(total.n, total.d * Len(norms))

\* C5 as claimed: every point at which the critic's gradient is evaluated is
\* an interpolated sample of some row with a coefficient in [0, 1), and the
\* result is the mean of (gradient norm - 1)^2 over the evaluated points.
C5_OnlyInterpolatedSamples ==
    pc = "done" =>
        /\ \A k \in DOMAIN locals.interpolates :
              \E i \in DOMAIN args.h_s :
                 OnHalfOpenSegment(locals.interpolates[k], args.h_s[i], args.h_t[i])
        /\ QEq(ret, MeanPenalty(locals.gradient_norm))

\* C5: the critic's gradient is evaluated at 3N points: the N interpolated
\* samples h_s[i] + alpha_i * (h_t[i] - h_s[i]), alpha_i in [0, 1) shared by
\* the features of row i, then the N rows of h_s, then the N rows of h_t; the
\* result is the mean over these points of (gradient norm - 1)^2, is >= 0,
\* and is 0 exactly when the gradient norm is 1 at every one of them.
C5_GradientPenalty ==
    pc = "done" =>
        LET N == Len(args.h_s)
            x == locals.interpolates
        IN  /\ Len(x) = 3 * N
            /\ \A i \in 1..N :
                  /\ locals.drawn[i] \in 0..(AlphaDen - 1)
                  /\ \A c \in 1..GpFeatures :
                        /\ x[i][c] = AlphaDen * args.h_s[i][c]
                                       + locals.drawn[i] * (args.h_t[i][c] - args.h_s[i][c])
                        /\ x[N + i][c] = AlphaDen * args.h_s[i][c]
                        /\ x[2 * N + i][c] = AlphaDen * args.h_t[i][c]
            /\ QEq(ret, MeanPenalty(locals.gradient_norm))
            /\ ret.d > 0
            /\ ret.n >= 0
            /\ (ret.n = 0) <=> (\A k \in DOMAIN x : NormIsOne(locals.gradient_norm[k]))

\* two rows, a point-dependent critic, a non-zero coefficient, h_t away from
\* h_s, and a positive penalty
C5_Witness ==
    /\ pc = "done"
    /\ Len(args.h_s) = 2
    /\ args.critic = "half_square"
    /\ locals.drawn[1] # 0
    /\ args.h_t[1] # args.h_s[1]
    /\ ret.n > 0

-----------------------------------------------------------------------------
(* The loss functions as functions, and two runs of a program calling them *)

\* the application of a torch function whose value is not computed here
Torch(f, a) == [torch |-> f, of |-> a]

NoWeights == [given |-> FALSE, w |-> <<>>]

\* index of the first maximal value of a row, counted from 0
ArgMax(row) == (CHOOSE i \in DOMAIN row :
                   /\ \A j \in DOMAIN row : row[j] <= row[i]
                   /\ \A j \in DOMAIN row : j < i => row[j] < row[i]) - 1

cross_entropy_logits(linear_output, label, weights) ==
    LET class_output == Torch("log_softmax", <<linear_output, 1>>)
        y_hat == [i \in DOMAIN linear_output |-> ArgMax(linear_output[i])]
        correct == [i \in DOMAIN y_hat |-> y_hat[i] = label[i]]
        loss == IF ~weights.given
                THEN Torch("NLLLoss", <<class_output, label>>)
                ELSE Torch("div",
                       <<Torch("sum", Torch("mul",
                            <<weights.w, Torch("NLLLoss(reduction=none)", <<class_output, label>>)>>)),
                         Torch("sum", weights.w)>>)
    IN  <<loss, correct>>

entropy_logits(linear_output) ==
    LET p == Torch("softmax", <<linear_output, 1>>)
    IN  Torch("neg", Torch("sum",
           <<Torch("mul", <<p, Torch("log", Torch("add", <<p, "1e-5">>))>>), 1>>))

entropy_logits_loss(linear_output) == Torch("mean", entropy_logits(linear_output))

gaussian_kernel(source, target, kernel_mul, kernel_num, fix_sigma) ==
    LET n_samples == Len(source) + Len(target)
        L2 == L2_distance(source, target)
        b == IF Truthy(fix_sigma) THEN fix_sigma.val
             ELSE Q(SumAll(L2), n_samples * n_samples - n_samples)
        bandwidth == Q(b.n, b.d * gk_divisor(kernel_mul, kernel_num))
    IN  kernel_val(L2, bandwidth_list(bandwidth, kernel_mul, kernel_num))

compute_mmd_loss(kernel_values, batch_size) ==
    LET t(n) == mmd_body(kernel_values, batch_size, n - 1).delta
    IN  Q(SumTo(t, batch_size), batch_size)

hsic(kx, ky, device) ==
    LET n == Rows(kx)
    IN  IF Rows(ky) # n THEN [raised |-> "ValueError"]
        ELSE hsic_score(kx, ky, [num |-> ctr_mat_num(n), den |-> n], n)

euclidean_times_calls(x1, x2) ==
    LET sq(i) == (x1[i] - x2[i]) * (x1[i] - x2[i])
    IN  Torch("sqrt", SumTo(sq, Len(x1)) * (1 + hist[run].n))

euclidean(x1, x2) ==
    LET sq(i) == (x1[i] - x2[i]) * (x1[i] - x2[i])
    IN  Torch("sqrt", SumTo(sq, Len(x1)))

Runs == 1..2

Logits == { <<<<1, 0>>, <<0, 2>>>>, <<<<1, 1>>, <<2, 0>>>> }

RunsInit ==
    /\ heap = <<>> /\ cfgs = <<>> /\ op = None /\ nassign = 0
    /\ pc = "idle" /\ args = None /\ locals = None /\ ret = None
    /\ hist = [r \in Runs |-> [n |-> 0, last |-> None]]
    /\ run = 1
    /\ DataIdle
    \* both runs start from the same seed
    /\ \E stream \in [1..MaxRunCalls -> 0..(AlphaDen - 1)] :
         rng = [r \in Runs |-> [stream |-> stream, pos |-> 0]]

\* the executing run calls fn(a) and gets result; draws values are consumed
Called(fn, a, result, draws) ==
    /\ hist[run].n < MaxRunCalls
    /\ hist' = [hist EXCEPT ![run] =
                  [n |-> @.n + 1,
                   last |-> [fn |-> fn, args |-> a, result |-> result,
                             generator |-> default_generator]]]
    /\ rng' = [rng EXCEPT ![run].pos = @ + draws]
    /\ UNCHANGED <<pc, args, locals, ret, run, cfgVars, dataVars>>

call_cross_entropy_logits ==
    \E x \in Logits, weights \in {NoWeights, [given |-> TRUE, w |-> <<1, 2>>]} :
       Called("cross_entropy_logits", <<x, <<0, 1>>, weights>>,
              cross_entropy_logits(x, <<0, 1>>, weights), 0)

call_entropy_logits ==
    \E x \in Logits : Called("entropy_logits", <<x>>, entropy_logits(x), 0)

call_entropy_logits_loss ==
    \E x \in Logits : Called("entropy_logits_loss", <<x>>, entropy_logits_loss(x), 0)

call_gradient_penalty ==
    \E critic \in {"half_square"}, h_t \in GpInputs(1) :
       LET h_s == <<[c \in 1..GpFeatures |-> 0]>>
       IN  /\ default_generator.pos + Len(h_s) <= Len(default_generator.stream)
           /\ Called("gradient_penalty", <<critic, h_s, h_t>>,
                     gradient_penalty(critic, h_s, h_t).value, Len(h_s))

call_gaussian_kernel ==
    \E target \in [1..1 -> [1..NFeatures -> 0..MaxX]],
       fix_sigma \in {f \in FixSigmas : f.kind # "tensor" /\ f.val.n <= 1} :
       LET source == <<[c \in 1..NFeatures |-> 0]>>
       IN  Called("gaussian_kernel", <<source, target, 2, 5, fix_sigma>>,
                  gaussian_kernel(source, target, 2, 5, fix_sigma), 0)

call_compute_mmd_loss ==
    \E K \in {M \in GenericKernelValues(1) : M[0][0] = 0 /\ M[1][1] <= 1} :
       Called("compute_mmd_loss", <<K, 1>>, compute_mmd_loss(K, 1), 0)

call_hsic ==
    \E kx \in KernelMatrices(1), ky \in KernelMatrices(1) \cup {<<<<1, 0>>, <<0, 1>>>>} :
       Called("hsic", <<kx, ky, "cpu">>, hsic(kx, ky, "cpu"), 0)

call_euclidean ==
    \E x2 \in [1..2 -> 0..1] :
       Called("euclidean", <<<<0, 1>>, x2>>, euclidean(<<0, 1>>, x2), 0)

\* the other run takes its next step
switch_run ==
    /\ run' = 3 - run
    /\ UNCHANGED <<lossVars, rng, cfgVars, dataVars>>

RunsNext ==
    \/ call_cross_entropy_logits
    \/ call_entropy_logits
    \/ call_entropy_logits_loss
    \/ call_gradient_penalty
    \/ call_gaussian_kernel
    \/ call_compute_mmd_loss
    \/ call_hsic
    \/ call_euclidean
    \/ switch_run

SpecRuns == RunsInit /\ [][RunsNext]_vars

SameCall(a, b) == a.fn = b.fn /\ a.args = b.args

-----------------------------------------------------------------------------
(* Office data access wrapped in MultiDomainAdapDataset                    *)

\* the class folders, in sorted order
OfficeClasses ==
    <<"back_pack", "bike", "bike_helmet", "bookcase", "bottle", "calculator", "desk_chair",
      "desk_lamp", "desktop_computer", "file_cabinet", "headphones", "keyboard",
      "laptop_computer", "letter_tray", "mobile_phone", "monitor", "mouse", "mug",
      "paper_notebook", "pen", "phone", "printer", "projector", "punchers", "ring_binder",
      "ruler", "scissors", "speaker", "stapler", "tape_dispenser", "trash_can">>

CaltechClasses ==
    <<"back_pack", "bike", "calculator", "headphones", "keyboard", "laptop_computer",
      "monitor", "mouse", "mug", "projector">>

OfficeDomains == <<"amazon", "caltech", "dslr", "webcam">>

Office31Domains == <<"amazon", "dslr", "webcam">>

\* number of images of a domain found under the root folder
DomainSizes == {157, 2817}

Splits == {"train", "valid", "test"}

\* the index 0..n-1 of every name of a sorted list
IndexOf(names) ==
    [x \in Range(names) |-> (CHOOSE i \in DOMAIN names : names[i] = x) - 1]

\* OfficeAccess(root, download=True, ...) restricted to some domains and classes
OfficeAccess(kind, sub_domain_set, sub_class_set, size) ==
    [kind |-> kind,
     class_to_idx |-> IndexOf(sub_class_set),
     domain_to_idx |-> IndexOf(sub_domain_set),
     size |-> size]

DataInit ==
    /\ heap = <<>> /\ cfgs = <<>> /\ op = None /\ nassign = 0
    /\ pc = "idle" /\ args = None /\ locals = None /\ ret = None /\ hist = <<>>
    /\ rng = None /\ run = 1
    /\ DataIdle

Office31 ==
    /\ access = None
    /\ \E size \in [Range(Office31Domains) -> DomainSizes] :
         access' = OfficeAccess("Office31", Office31Domains, OfficeClasses, size)
    /\ UNCHANGED <<dataset, loader, batch, cfgVars, lossVars, rngVars>>

OfficeCaltech ==
    /\ access = None
    /\ \E size \in [Range(OfficeDomains) -> DomainSizes] :
         access' = OfficeAccess("OfficeCaltech", OfficeDomains, CaltechClasses, size)
    /\ UNCHANGED <<dataset, loader, batch, cfgVars, lossVars, rngVars>>

\* MultiDomainAdapDataset(office_access), valid_split_ratio=0.1, test_split_ratio=0.2
MultiDomainAdapDataset ==
    /\ access # None
    /\ dataset = None
    /\ dataset' = [domain_to_idx |-> access.domain_to_idx, prepared |-> FALSE, count |-> <<>>]
    /\ UNCHANGED <<access, loader, batch, cfgVars, lossVars, rngVars>>

\* the number of samples of each domain that each split holds
prepare_data_loaders ==
    /\ dataset # None
    /\ ~dataset.prepared
    /\ dataset' = [dataset EXCEPT
          !.prepared = TRUE,
          !.count = [sp \in Splits |-> [d \in DOMAIN access.size |->
                       LET test == (access.size[d] * 2) \div 10
                           valid == access.size[d] \div 10
                       IN  CASE sp = "test" -> test
                             [] sp = "valid" -> valid
                             [] sp = "train" -> access.size[d] - test - valid]]]
    /\ UNCHANGED <<access, loader, batch, cfgVars, lossVars, rngVars>>

\* samples of each domain in a batch of the domain-balanced sampler
n_samples_whole_batch(batch_size, n_domains) == batch_size

n_samples(batch_size, n_domains) == batch_size \div n_domains

\* get_domain_loaders(split=split, batch_size=32): the sampler visits the
\* domains in a random order
get_domain_loaders ==
    /\ dataset # None
    /\ dataset.prepared
    /\ \E split \in Splits :
         \E order \in [1..Cardinality(DOMAIN dataset.domain_to_idx) -> DOMAIN dataset.domain_to_idx] :
            /\ \A i, j \in DOMAIN order : i # j => order[i] # order[j]
            /\ loader' = [split |-> split, order |-> order, next |-> 1,
                          n_samples |-> n_samples(32, Cardinality(DOMAIN dataset.domain_to_idx))]
    /\ batch' = <<>>
    /\ UNCHANGED <<access, dataset, cfgVars, lossVars, rngVars>>

\* next(iter(dataloader)), one domain at a time: the next n_samples samples of
\* the domain, or all of them when it has fewer
draw_domain ==
    /\ loader # None
    /\ loader.next <= Len(loader.order)
    /\ LET d == loader.order[loader.next]
           have == dataset.count[loader.split][d]
           take == IF have < loader.n_samples THEN have ELSE loader.n_samples
       IN  batch' = batch \o [i \in 1..take |-> dataset.domain_to_idx[d]]
    /\ loader' = [loader EXCEPT !.next = @ + 1]
    /\ UNCHANGED <<access, dataset, cfgVars, lossVars, rngVars>>

DataNext ==
    \/ Office31
    \/ OfficeCaltech
    \/ MultiDomainAdapDataset
    \/ prepare_data_loaders
    \/ get_domain_loaders
    \/ draw_domain

SpecData == DataInit /\ [][DataNext]_vars

====
